---- MODULE Spec2Model ----
(***************************************************************************)
(* State-machine model of the DMV appointment monitor's server core:       *)
(*   MemStorage            (storage.ts,            src/unnamed/part_003)   *)
(*   MonitoringService     (monitoringService.ts,  src/unnamed/part_002)   *)
(*   NotificationService / SmsService              (src/unnamed/part_002)  *)
(*   EmailService          (src/server/services/emailService.ts)           *)
(*   AppointmentChecker    (src/server/services/appointmentChecker.ts)     *)
(*   the HTTP routes       (src/server/routes.ts)                          *)
(*                                                                         *)
(* Execution model.  The server is one Node.js event loop.  An async       *)
(* function runs without interruption up to its next `await`; there it     *)
(* yields and any other pending continuation may run.  A MemStorage        *)
(* method has no await inside it, so its read or write happens at the      *)
(* moment it is CALLED; the `await` on its result only yields afterwards.  *)
(* One action of this model is therefore one stretch of code between two   *)
(* awaits, and pc[p] names the await the process p is suspended at.        *)
(* Calls that leave the process (puppeteer, nodemailer, twilio) resolve or *)
(* reject: both outcomes are actions.                                      *)
(***************************************************************************)
EXTENDS Integers, Sequences, FiniteSets, TLC

\* ------------------------------------------------------------------ bounds
MaxReqs == 3        \* start / stop / save-settings requests issued in a run
MaxCycles == 2      \* check cycles (ticks and check-now requests) in a run
MaxNotifies == 2    \* direct NotificationService.sendAppointmentNotification calls
MaxLocs == 2        \* DMV locations in the store
MaxSlotsPerLoc == 1 \* slots one page can yield
MaxTime == 2        \* clock values (minutes)

\* --------------------------------------------------------------- processes
Reqs == {<<"req", i>> : i \in 1..MaxReqs}
Cycles == {<<"cycle", i>> : i \in 1..MaxCycles}
Notifiers == {<<"notify", i>> : i \in 1..MaxNotifies}
Procs == Reqs \cup Cycles \cup Notifiers
LocIds == 1..MaxLocs

\* Inputs of POST /api/monitoring-settings that pass insertMonitoringSettingsSchema
\* (integer / boolean columns, no range check): an interval below one minute too.
CheckIntervals == {30, 60, 120}
SettingsInputs == [isEnabled : BOOLEAN, checkInterval : CheckIntervals]

VARIABLES
  \* MemStorage
  dmvLocations,        \* LocIds -> [enabled]
  emailConfig,         \* [present, smsEnabled, smsCreds]
  monitoringSettings,  \* [isEnabled, checkInterval]
  activityLogs,        \* sequence of entries, oldest first
  monitoringStats,     \* [totalChecks, appointmentsFound, emailsSent, smsSent, lastCheckTime, uptime]
  \* MonitoringService
  task,                \* 0 (null) or an index of cronTasks
  isRunning,
  startTime,           \* 0 (null) or a clock value
  \* node-cron: every task created, [interval, running]
  cronTasks,
  \* AppointmentChecker / puppeteer
  browser,             \* 0 (null) or a browser instance id
  launched,            \* number of browser instances launched so far
  liveBrowsers,        \* instance ids launched and not closed
  openPages,           \* page handles open
  \* the clock
  now,
  \* processes
  pc,                  \* Procs -> the await the process is suspended at
  frame,               \* Procs -> the process's locals
  \* history
  overlapped,          \* Reqs -> another request was in flight during this one
  emailCalls,          \* calls of EmailService.sendAppointmentNotification: <<process, slots>>
  smsCalls             \* calls of SmsService.sendAppointmentNotification: <<process, slots>>

storageVars == <<dmvLocations, emailConfig, monitoringSettings, activityLogs, monitoringStats>>
schedVars == <<task, isRunning, startTime, cronTasks>>
checkerVars == <<browser, launched, liveBrowsers, openPages>>
procVars == <<pc, frame>>
histVars == <<overlapped, emailCalls, smsCalls>>
vars == <<storageVars, schedVars, checkerVars, now, procVars, histVars>>

\* ------------------------------------------------------------- MemStorage
NoSlots == <<>>

LogEntry(type, title, loc, n, slots) ==
  [type |-> type, title |-> title, loc |-> loc, n |-> n, slots |-> slots]

\* createActivityLog: the entry is added to the map; read back oldest first.
createActivityLog(logs, entry) == Append(logs, entry)

\* upsertMonitoringStats: { ...this.monitoringStats, ...stats }: every field the
\* caller passes overrides the stored one, the others are kept.
upsertMonitoringStats(stored, passed) ==
  [f \in DOMAIN stored |-> IF f \in DOMAIN passed THEN passed[f] ELSE stored[f]]

\* upsertMonitoringSettings: the stored record is replaced by the payload.
upsertMonitoringSettings(stored, payload) == payload

DefaultStats ==
  [totalChecks |-> 0, appointmentsFound |-> 0, emailsSent |-> 0, smsSent |-> 0,
   lastCheckTime |-> 0, uptime |-> 0]

DefaultSettings == [isEnabled |-> FALSE, checkInterval |-> 300]

NoEmailConfig == [present |-> FALSE, smsEnabled |-> FALSE, smsCreds |-> FALSE]

\* getDmvLocations().filter(loc => loc.enabled), in creation order
RECURSIVE EnabledFrom(_, _)
EnabledFrom(locs, i) ==
  IF i > MaxLocs THEN <<>>
  ELSE (IF i \in DOMAIN locs /\ locs[i].enabled THEN <<i>> ELSE <<>>)
         \o EnabledFrom(locs, i + 1)

EnabledLocations(locs) == EnabledFrom(locs, 1)

CountType(logs, type) == Cardinality({i \in DOMAIN logs : logs[i].type = type})

\* -------------------------------------------------------------- processes
EmptyFrame ==
  [op |-> "none", payload |-> DefaultSettings, settings |-> DefaultSettings,
   wasRunning |-> FALSE, resp |-> 0,
   trigger |-> "none", locations |-> <<>>, idx |-> 0, slots |-> NoSlots,
   stats |-> DefaultStats, statsBefore |-> DefaultStats, config |-> NoEmailConfig,
   checker |-> "none", outcome |-> "none", results |-> <<>>,
   failed |-> <<>>, yields |-> <<>>, closeFailed |-> FALSE, enabledCount |-> 0,
   emailOutcome |-> "none", smsOutcome |-> "none", threw |-> FALSE,
   count |-> 0, businessDaysOnly |-> FALSE, today |-> 0, days |-> <<>>,
   body |-> [none |-> TRUE], closing |-> 0,
   pageSlots |-> <<>>, calendarSlots |-> <<>>, textQueryFails |-> FALSE,
   calendarQueryFails |-> FALSE, utcShift |-> 0, targetDates |-> <<>>,
   textFound |-> <<>>, calendarFound |-> <<>>]

InFlight(p) == pc[p] \notin {"idle", "done"}

\* Process ids of one kind are handed out in order.
NextFree(p, S) == pc[p] = "idle" /\ \A q \in S : q[2] < p[2] => pc[q] # "idle"

\* A request begins: it and every request already in flight overlap.
BeginOverlap(r) ==
  overlapped' = [q \in Reqs |->
                   IF \E o \in Reqs \ {r} : InFlight(o)
                   THEN (q = r \/ InFlight(q) \/ overlapped[q])
                   ELSE overlapped[q]]

Respond(p, code) ==
  /\ pc' = [pc EXCEPT ![p] = "done"]
  /\ frame' = [frame EXCEPT ![p].resp = code]


Suspend(p, at, fr) ==
  /\ pc' = [pc EXCEPT ![p] = at]
  /\ frame' = [frame EXCEPT ![p] = fr]

\* ------------------------------------------------------- MonitoringService
\* Math.floor(settings.checkInterval / 60)
IntervalMinutes(settings) == settings.checkInterval \div 60

\* cron.schedule(`*/${intervalMinutes} * * * *`, ...): node-cron validates the
\* expression in the task's constructor and throws on a step of 0.
ScheduleThrows(intervalMinutes) == intervalMinutes < 1

\* this.task.stop() on the task the service references, if any
StopReferencedTask(tasks, t) ==
  IF t # 0 THEN [tasks EXCEPT ![t].running = FALSE] ELSE tasks

\* startMonitoring up to its first await: the isRunning check and the settings read.
\* `done` is what the caller does when startMonitoring returned at once.
startMonitoringCall(p, fr) ==
  /\ IF isRunning
     THEN /\ pc' = [pc EXCEPT ![p] = "done"]
          /\ frame' = [frame EXCEPT ![p] = [fr EXCEPT !.resp = 200]]
     ELSE Suspend(p, "start_settings", [fr EXCEPT !.settings = monitoringSettings])

\* A startMonitoring without the isEnabled check of line 156.
startMonitoringResume_NoEnabledCheck(p) ==
  LET s == frame[p].settings
      m == IntervalMinutes(s)
      stopped == StopReferencedTask(cronTasks, task)
  IN IF ScheduleThrows(m)
     THEN /\ cronTasks' = stopped
          /\ Respond(p, 400)
          /\ UNCHANGED <<task, isRunning, startTime, activityLogs>>
     ELSE /\ cronTasks' = Append(stopped, [interval |-> m, running |-> TRUE])
          /\ task' = Len(cronTasks) + 1
          /\ isRunning' = TRUE
          /\ startTime' = now
          /\ activityLogs' = createActivityLog(activityLogs,
                 LogEntry("monitoring_started", "Monitoring Started", 0, m, NoSlots))
          /\ pc' = [pc EXCEPT ![p] = "start_logged"]
          /\ UNCHANGED frame

\* startMonitoring after `await storage.getMonitoringSettings()`: lines 156-184.
startMonitoringResume(p) ==
  LET s == frame[p].settings
      m == IntervalMinutes(s)
      stopped == StopReferencedTask(cronTasks, task)
  IN IF ~s.isEnabled
     THEN \* throw new Error('Monitoring is not enabled'); both routes answer 400
          /\ Respond(p, 400)
          /\ UNCHANGED <<schedVars, activityLogs>>
     ELSE IF ScheduleThrows(m)
     THEN \* the old task is stopped, this.task still references it
          /\ cronTasks' = stopped
          /\ Respond(p, 400)
          /\ UNCHANGED <<task, isRunning, startTime, activityLogs>>
     ELSE /\ cronTasks' = Append(stopped, [interval |-> m, running |-> TRUE])
          /\ task' = Len(cronTasks) + 1
          /\ isRunning' = TRUE
          /\ startTime' = now
          /\ activityLogs' = createActivityLog(activityLogs,
                 LogEntry("monitoring_started", "Monitoring Started", 0, m, NoSlots))
          /\ pc' = [pc EXCEPT ![p] = "start_logged"]
          /\ UNCHANGED frame

\* stopMonitoring up to its await: lines 190-202.
stopMonitoringCall ==
  /\ cronTasks' = StopReferencedTask(cronTasks, task)
  /\ task' = 0
  /\ isRunning' = FALSE
  /\ activityLogs' = createActivityLog(activityLogs,
         LogEntry("monitoring_stopped", "Monitoring Stopped", 0, 0, NoSlots))
  /\ UNCHANGED startTime

\* An updateSettings that does not restart a running scheduler.
updateSettingsCall_NoRestart(p) ==
  /\ pc' = [pc EXCEPT ![p] = "done"]
  /\ frame' = [frame EXCEPT ![p].wasRunning = isRunning, ![p].resp = 200]
  /\ UNCHANGED <<schedVars, activityLogs>>

\* updateSettings: if (this.isRunning) { await stop; await start }
updateSettingsCall(p) ==
  IF isRunning
  THEN /\ stopMonitoringCall
       /\ Suspend(p, "stop_logged", [frame[p] EXCEPT !.wasRunning = TRUE])
  ELSE /\ Respond(p, 200)
       /\ UNCHANGED <<schedVars, activityLogs>>

\* ------------------------------------------------------------------ routes
restVars == <<dmvLocations, emailConfig, monitoringStats, checkerVars, now, emailCalls, smsCalls>>

\* POST /api/monitoring/start
StartRequest(r) ==
  /\ NextFree(r, Reqs)
  /\ startMonitoringCall(r, [frame[r] EXCEPT !.op = "start", !.wasRunning = isRunning])
  /\ BeginOverlap(r)
  /\ UNCHANGED <<monitoringSettings, activityLogs, schedVars, restVars>>

StartResume(r) ==
  /\ pc[r] = "start_settings"
  /\ startMonitoringResume(r)
  /\ UNCHANGED <<monitoringSettings, overlapped, restVars>>

\* startMonitoring returns; the route answers, or updateSettings returns and its route answers
StartFinish(r) ==
  /\ pc[r] = "start_logged"
  /\ Respond(r, 200)
  /\ UNCHANGED <<monitoringSettings, activityLogs, schedVars, overlapped, restVars>>

\* POST /api/monitoring/stop
StopRequest(r) ==
  /\ NextFree(r, Reqs)
  /\ stopMonitoringCall
  /\ Suspend(r, "stop_logged", [frame[r] EXCEPT !.op = "stop", !.wasRunning = isRunning])
  /\ BeginOverlap(r)
  /\ UNCHANGED <<monitoringSettings, restVars>>

\* stopMonitoring returns: the stop route answers; updateSettings goes on to startMonitoring
StopFinish(r) ==
  /\ pc[r] = "stop_logged"
  /\ IF frame[r].op = "stop"
     THEN Respond(r, 200)
     ELSE startMonitoringCall(r, frame[r])
  /\ UNCHANGED <<monitoringSettings, activityLogs, schedVars, overlapped, restVars>>

\* POST /api/monitoring-settings: parse, upsert, then updateSettings
SaveRequest(r, payload) ==
  /\ NextFree(r, Reqs)
  /\ monitoringSettings' = upsertMonitoringSettings(monitoringSettings, payload)
  /\ Suspend(r, "save_upserted", [frame[r] EXCEPT !.op = "save", !.payload = payload])
  /\ BeginOverlap(r)
  /\ UNCHANGED <<activityLogs, schedVars, restVars>>

SaveResume(r) ==
  /\ pc[r] = "save_upserted"
  /\ updateSettingsCall(r)
  /\ UNCHANGED <<monitoringSettings, overlapped, restVars>>

\* The clock moves on by a minute. The requests above await nothing but MemStorage
\* promises, which resolve within the same turn of the event loop: no minute
\* passes while one of them is suspended.
Advance ==
  /\ now < MaxTime
  /\ \A r \in Reqs : ~InFlight(r)
  /\ now' = now + 1
  /\ UNCHANGED <<storageVars, schedVars, checkerVars, procVars, histVars>>

\* ------------------------------------------------------ AppointmentChecker
\* The slots one page yields: slot j of location l is <<l, j>>.
RECURSIVE SlotsOf(_, _)
SlotsOf(l, k) == IF k = 0 THEN <<>> ELSE Append(SlotsOf(l, k - 1), <<l, k>>)

cycleRest == <<monitoringSettings, schedVars, now, overlapped>>
cycleRestS == <<cycleRest, smsCalls>>

\* A catch block that logs the error and throws it on to the caller.
CheckFailed_Rethrows(c, fr) ==
  /\ activityLogs' = createActivityLog(activityLogs,
         LogEntry("error", "Check Failed", 0, 0, NoSlots))
  /\ pc' = [pc EXCEPT ![c] = "done"]
  /\ frame' = [frame EXCEPT ![c] = [fr EXCEPT !.outcome = "error", !.threw = TRUE, !.resp = 500]]

\* A catch block that swallows the error without logging it.
CheckFailed_Silent(c, fr) ==
  /\ UNCHANGED activityLogs
  /\ pc' = [pc EXCEPT ![c] = "done"]
  /\ frame' = [frame EXCEPT ![c] = [fr EXCEPT !.outcome = "error", !.resp = 200]]

\* performCheck's catch block (lines 253-263): the cycle-level error entry. The
\* check-now route then answers 200.
CheckFailed(c, fr) ==
  /\ activityLogs' = createActivityLog(activityLogs,
         LogEntry("error", "Check Failed", 0, 0, NoSlots))
  /\ pc' = [pc EXCEPT ![c] = "done"]
  /\ frame' = [frame EXCEPT ![c] = [fr EXCEPT !.outcome = "error", !.resp = 200]]

\* A loop that iterates over the list as the store holds it now.
LoopTo_LiveList(c, fr, i) ==
  LET live == EnabledLocations(dmvLocations)
  IN IF i <= Len(live)
     THEN Suspend(c, "loop", [fr EXCEPT !.idx = i, !.locations = live])
     ELSE Suspend(c, "closing_page", [fr EXCEPT !.idx = i, !.locations = live])

\* The for loop of checkAppointments moves to location i, or leaves the loop and,
\* in the finally block, calls page.close().
LoopTo(c, fr, i) ==
  IF i <= Len(fr.locations)
  THEN Suspend(c, "loop", [fr EXCEPT !.idx = i])
  ELSE Suspend(c, "closing_page", [fr EXCEPT !.idx = i])

\* performCheck is called (by a cron tick or by the check-now route) and runs into
\* checkAppointments and initialize: a browser is launched if there is none.
performCheckCall(c, trigger) ==
  /\ NextFree(c, Cycles)
  /\ Suspend(c, IF browser = 0 THEN "launching" ELSE "initialized",
             [frame[c] EXCEPT !.op = "check", !.trigger = trigger,
                              !.statsBefore = monitoringStats])
  /\ UNCHANGED <<storageVars, checkerVars, emailCalls, cycleRestS>>

\* the callback of a running cron task fires
Tick(c) ==
  /\ \E i \in DOMAIN cronTasks : cronTasks[i].running
  /\ performCheckCall(c, "tick")

\* POST /api/monitoring/check-now
CheckNow(c) == performCheckCall(c, "manual")

\* puppeteer.launch() resolves: this.browser = the new instance
LaunchOk(c) ==
  /\ pc[c] = "launching"
  /\ launched' = launched + 1
  /\ browser' = launched + 1
  /\ liveBrowsers' = liveBrowsers \cup {launched + 1}
  /\ pc' = [pc EXCEPT ![c] = "initialized"]
  /\ UNCHANGED <<frame, openPages, storageVars, emailCalls, cycleRestS>>

\* puppeteer.launch() rejects: checkAppointments throws
LaunchFails(c) ==
  /\ pc[c] = "launching"
  /\ CheckFailed(c, [frame[c] EXCEPT !.checker = "threw"])
  /\ UNCHANGED <<dmvLocations, emailConfig, monitoringStats, checkerVars, emailCalls, cycleRestS>>

\* storage.getDmvLocations(), filtered to the enabled ones (lines 65-66)
ReadLocations(c) ==
  /\ pc[c] = "initialized"
  /\ Suspend(c, "locations_read",
             [frame[c] EXCEPT !.locations = EnabledLocations(dmvLocations)])
  /\ UNCHANGED <<storageVars, checkerVars, emailCalls, cycleRestS>>

\* storage.getMonitoringSettings() (line 67)
ReadSettings(c) ==
  /\ pc[c] = "locations_read"
  /\ Suspend(c, "settings_read", [frame[c] EXCEPT !.settings = monitoringSettings])
  /\ UNCHANGED <<storageVars, checkerVars, emailCalls, cycleRestS>>

\* this.browser!.newPage() (line 76): a TypeError when the browser was closed
OpenPage(c) ==
  /\ pc[c] = "settings_read"
  /\ IF browser = 0
     THEN CheckFailed(c, [frame[c] EXCEPT !.checker = "threw"])
     ELSE /\ pc' = [pc EXCEPT ![c] = "opening_page"]
          /\ UNCHANGED <<frame, activityLogs>>
  /\ UNCHANGED <<dmvLocations, emailConfig, monitoringStats, checkerVars, emailCalls, cycleRestS>>

\* newPage() resolves: the loop starts
PageOpened(c) ==
  /\ pc[c] = "opening_page"
  /\ openPages' = openPages + 1
  /\ LoopTo(c, frame[c], 1)
  /\ UNCHANGED <<browser, launched, liveBrowsers, storageVars, emailCalls, cycleRestS>>

\* newPage() rejects: checkAppointments throws
PageOpenFails(c) ==
  /\ pc[c] = "opening_page"
  /\ CheckFailed(c, [frame[c] EXCEPT !.checker = "threw"])
  /\ UNCHANGED <<dmvLocations, emailConfig, monitoringStats, checkerVars, emailCalls, cycleRestS>>

\* One iteration of the loop runs to its end (lines 83-162): the page yields k slots.
LocationOk(c, k) ==
  /\ pc[c] = "loop"
  /\ LET fr == frame[c]
         l == fr.locations[fr.idx]
     IN LoopTo(c, [fr EXCEPT !.slots = fr.slots \o SlotsOf(l, k),
                             !.yields = Append(fr.yields, <<l, k>>)], fr.idx + 1)
  /\ UNCHANGED <<storageVars, checkerVars, emailCalls, cycleRestS>>

\* A loop without the inner try/catch: a failing location aborts the whole check.
LocationFails_Abort(c) ==
  /\ pc[c] = "loop"
  /\ LET fr == frame[c]
         l == fr.locations[fr.idx]
     IN CheckFailed(c, [fr EXCEPT !.failed = fr.failed \o <<l>>, !.checker = "threw"])
  /\ UNCHANGED <<dmvLocations, emailConfig, monitoringSettings, monitoringStats,
                 checkerVars, emailCalls, schedVars, now, overlapped, smsCalls>>

\* One iteration throws (navigation, extraction): the inner catch logs an error
\* entry naming the location (lines 164-174) and the loop goes on.
LocationFails(c) ==
  /\ pc[c] = "loop"
  /\ LET fr == frame[c]
         l == fr.locations[fr.idx]
     IN /\ activityLogs' = createActivityLog(activityLogs,
               LogEntry("error", "Error checking", l, 0, NoSlots))
        /\ LoopTo(c, [fr EXCEPT !.failed = fr.failed \o <<l>>], fr.idx + 1)
  /\ UNCHANGED <<dmvLocations, emailConfig, monitoringSettings, monitoringStats,
                 checkerVars, emailCalls, schedVars, now, overlapped, smsCalls>>

\* A checkAppointments that returns without closing its page.
PageClosed_NoClose(c) ==
  /\ pc[c] = "closing_page"
  /\ Suspend(c, "checked", [frame[c] EXCEPT !.checker = "returned"])
  /\ UNCHANGED <<checkerVars, storageVars, emailCalls, cycleRestS>>

\* page.close() resolves in the finally block: checkAppointments returns the slots
PageClosed(c) ==
  /\ pc[c] = "closing_page"
  /\ openPages' = openPages - 1
  /\ Suspend(c, "checked", [frame[c] EXCEPT !.checker = "returned"])
  /\ UNCHANGED <<browser, launched, liveBrowsers, storageVars, emailCalls, cycleRestS>>

\* page.close() rejects: the finally block throws, checkAppointments throws
PageCloseFails(c) ==
  /\ pc[c] = "closing_page"
  /\ CheckFailed(c, [frame[c] EXCEPT !.checker = "threw", !.closeFailed = TRUE])
  /\ UNCHANGED <<dmvLocations, emailConfig, monitoringStats, checkerVars, emailCalls, cycleRestS>>

\* ------------------------------------------------------------ performCheck
\* storage.getMonitoringStats() (line 214)
ReadStats(c) ==
  /\ pc[c] = "checked"
  /\ Suspend(c, "stats_read", [frame[c] EXCEPT !.stats = monitoringStats])
  /\ UNCHANGED <<storageVars, checkerVars, emailCalls, cycleRestS>>

\* the record performCheck passes to upsertMonitoringStats (lines 216-222)
CheckedStats(stats, slots, start, clock) ==
  [stats EXCEPT !.totalChecks = stats.totalChecks + 1,
                !.appointmentsFound = stats.appointmentsFound + Len(slots),
                !.lastCheckTime = clock,
                !.uptime = IF start # 0 THEN clock - start ELSE stats.uptime]

WriteStats(c) ==
  /\ pc[c] = "stats_read"
  /\ monitoringStats' = upsertMonitoringStats(monitoringStats,
         CheckedStats(frame[c].stats, frame[c].slots, startTime, now))
  /\ pc' = [pc EXCEPT ![c] = "stats_written"]
  /\ UNCHANGED <<frame, dmvLocations, emailConfig, activityLogs, checkerVars, emailCalls, cycleRestS>>

\* emailService.sendAppointmentNotification is called: storage.getEmailConfig()
sendEmailCall(p, fr) ==
  /\ emailCalls' = Append(emailCalls, <<p, fr.slots>>)
  /\ Suspend(p, "email_config", [fr EXCEPT !.config = emailConfig])

\* lines 225-251: slots found: send the email; none: count the enabled locations
AfterStats(c) ==
  /\ pc[c] = "stats_written"
  /\ IF Len(frame[c].slots) > 0
     THEN sendEmailCall(c, frame[c])
     ELSE /\ Suspend(c, "count_read",
                     [frame[c] EXCEPT !.enabledCount = Len(EnabledLocations(dmvLocations))])
          /\ UNCHANGED emailCalls
  /\ UNCHANGED <<storageVars, checkerVars, cycleRestS>>

\* the check_completed entry (lines 244-248)
LogCompleted(c) ==
  /\ pc[c] = "count_read"
  /\ activityLogs' = createActivityLog(activityLogs,
         LogEntry("check_completed", "Routine Check Completed", 0, frame[c].enabledCount, NoSlots))
  /\ pc' = [pc EXCEPT ![c] = "done"]
  /\ frame' = [frame EXCEPT ![c].outcome = "check_completed", ![c].resp = 200]
  /\ UNCHANGED <<dmvLocations, emailConfig, monitoringStats, checkerVars, emailCalls, cycleRestS>>

\* the appointment_found entry (lines 230-236)
LogFound(c, fr) ==
  /\ activityLogs' = createActivityLog(activityLogs,
         LogEntry("appointment_found", "Appointment Found!", 0, Len(fr.slots), fr.slots))
  /\ pc' = [pc EXCEPT ![c] = "done"]
  /\ frame' = [frame EXCEPT ![c] = [fr EXCEPT !.outcome = "appointment_found", !.resp = 200]]

\* ----------------------------------------------------- NotificationService
\* smsService.sendAppointmentNotification is called: storage.getEmailConfig()
sendSmsCall(p, fr) ==
  /\ smsCalls' = Append(smsCalls, <<p, fr.slots>>)
  /\ Suspend(p, "sms_config", [fr EXCEPT !.config = emailConfig])

\* lines 100-113: one notification_sent entry when a channel was recorded
NotifyDone(p, fr) ==
  /\ activityLogs' =
       IF Len(fr.results) > 0
       THEN createActivityLog(activityLogs,
              LogEntry("notification_sent", "Notifications Sent", 0, Len(fr.slots), fr.results))
       ELSE activityLogs
  /\ pc' = [pc EXCEPT ![p] = "done"]
  /\ frame' = [frame EXCEPT ![p] = fr]

\* the SMS step of the dispatcher ended: pushed on return (line 94), caught on throw
AfterSms(p, outcome) ==
  LET fr == [frame[p] EXCEPT !.smsOutcome = outcome,
                             !.results = IF outcome = "threw" THEN @ ELSE Append(@, "SMS")]
  IN NotifyDone(p, fr)

\* ------------------------------------------------------------ EmailService
\* sendAppointmentNotification returned to its caller: performCheck logs the
\* find (line 230); the dispatcher records 'email' and goes on to the SMS (line 85)
AfterEmailOk(p) ==
  LET fr == [frame[p] EXCEPT !.emailOutcome = "sent"]
  IN IF p \in Cycles
     THEN LogFound(p, fr) /\ UNCHANGED smsCalls
     ELSE sendSmsCall(p, [fr EXCEPT !.results = Append(@, "email")])
          /\ UNCHANGED activityLogs

\* A dispatcher whose e-mail failure ends the call before the SMS step.
AfterEmailThrew_SkipsSms(p) ==
  LET fr == [frame[p] EXCEPT !.emailOutcome = "threw"]
  IN IF p \in Cycles
     THEN CheckFailed(p, fr) /\ UNCHANGED smsCalls
     ELSE NotifyDone(p, [fr EXCEPT !.threw = TRUE]) /\ UNCHANGED smsCalls

\* sendAppointmentNotification threw into its caller: performCheck's catch block
\* (line 253); the dispatcher's catch (line 87), which goes on to the SMS
AfterEmailThrew(p) ==
  LET fr == [frame[p] EXCEPT !.emailOutcome = "threw"]
  IN IF p \in Cycles
     THEN CheckFailed(p, fr) /\ UNCHANGED smsCalls
     ELSE sendSmsCall(p, fr) /\ UNCHANGED activityLogs

\* after getEmailConfig: no configuration throws (lines 9-11); else sendMail is called
EmailConfigRead(p) ==
  /\ pc[p] = "email_config"
  /\ IF ~frame[p].config.present
     THEN AfterEmailThrew(p)
     ELSE /\ pc' = [pc EXCEPT ![p] = "email_sending"]
          /\ UNCHANGED <<frame, activityLogs, smsCalls>>
  /\ UNCHANGED <<dmvLocations, emailConfig, monitoringStats, checkerVars, emailCalls, cycleRest>>

\* transporter.sendMail resolves; storage.getMonitoringStats() (line 41)
EmailSent(p) ==
  /\ pc[p] = "email_sending"
  /\ Suspend(p, "email_stats", [frame[p] EXCEPT !.stats = monitoringStats])
  /\ UNCHANGED <<storageVars, checkerVars, emailCalls, cycleRestS>>

\* transporter.sendMail rejects
EmailSendFails(p) ==
  /\ pc[p] = "email_sending"
  /\ AfterEmailThrew(p)
  /\ UNCHANGED <<dmvLocations, emailConfig, monitoringStats, checkerVars, emailCalls, cycleRest>>

\* the record sendAppointmentNotification passes to upsertMonitoringStats (lines 43-46)
EmailedStats(stats) == [stats EXCEPT !.emailsSent = stats.emailsSent + 1]

EmailWriteStats(p) ==
  /\ pc[p] = "email_stats"
  /\ monitoringStats' = upsertMonitoringStats(monitoringStats, EmailedStats(frame[p].stats))
  /\ pc' = [pc EXCEPT ![p] = "email_done"]
  /\ UNCHANGED <<frame, dmvLocations, emailConfig, activityLogs, checkerVars, emailCalls, cycleRestS>>

EmailReturns(p) ==
  /\ pc[p] = "email_done"
  /\ AfterEmailOk(p)
  /\ UNCHANGED <<dmvLocations, emailConfig, monitoringStats, checkerVars, emailCalls, cycleRest>>

\* -------------------------------------------------------------- SmsService
\* line 9: SMS disabled or a credential missing
SmsUnconfigured(config) == ~config.present \/ ~config.smsEnabled \/ ~config.smsCreds

\* after getEmailConfig: not configured returns at once (lines 9-12); else the
\* twilio client is built and messages.create is called
SmsConfigRead(p) ==
  /\ pc[p] = "sms_config"
  /\ IF SmsUnconfigured(frame[p].config)
     THEN AfterSms(p, "skipped")
     ELSE /\ pc' = [pc EXCEPT ![p] = "sms_sending"]
          /\ UNCHANGED <<frame, activityLogs>>
  /\ UNCHANGED <<dmvLocations, emailConfig, monitoringStats, checkerVars, emailCalls, cycleRestS>>

\* messages.create resolves; storage.getMonitoringStats() (line 26)
SmsSent(p) ==
  /\ pc[p] = "sms_sending"
  /\ Suspend(p, "sms_stats", [frame[p] EXCEPT !.stats = monitoringStats])
  /\ UNCHANGED <<storageVars, checkerVars, emailCalls, cycleRestS>>

\* the twilio client or messages.create throws: rethrown (line 37) to the dispatcher
SmsSendFails(p) ==
  /\ pc[p] = "sms_sending"
  /\ AfterSms(p, "threw")
  /\ UNCHANGED <<dmvLocations, emailConfig, monitoringStats, checkerVars, emailCalls, cycleRestS>>

\* the record SmsService passes to upsertMonitoringStats (lines 28-31)
SmsedStats(stats) == [stats EXCEPT !.smsSent = stats.smsSent + 1]

SmsWriteStats(p) ==
  /\ pc[p] = "sms_stats"
  /\ monitoringStats' = upsertMonitoringStats(monitoringStats, SmsedStats(frame[p].stats))
  /\ pc' = [pc EXCEPT ![p] = "sms_done"]
  /\ UNCHANGED <<frame, dmvLocations, emailConfig, activityLogs, checkerVars, emailCalls, cycleRestS>>

SmsReturns(p) ==
  /\ pc[p] = "sms_done"
  /\ AfterSms(p, "sent")
  /\ UNCHANGED <<dmvLocations, emailConfig, monitoringStats, checkerVars, emailCalls, cycleRestS>>

\* NotificationService.sendAppointmentNotification(slots) is called: it calls the
\* e-mail service first (line 84)
NotifyCall(n, slots) ==
  /\ NextFree(n, Notifiers)
  /\ sendEmailCall(n, [frame[n] EXCEPT !.op = "notify", !.slots = slots])
  /\ UNCHANGED <<storageVars, checkerVars, cycleRestS>>

\* ------------------------------------------------ /api/notifications/test
\* NotificationService.sendTestNotifications (lines 116-136), with
\* EmailService.sendTestEmail and SmsService.sendTestSms, called by the route.
\* frame.results is the map { email, sms } the call returns.

\* sendTestNotifications is called: results = both false; sendTestEmail awaits
\* storage.getEmailConfig()
TestCall(n) ==
  /\ NextFree(n, Notifiers)
  /\ Suspend(n, "test_email_config",
       [frame[n] EXCEPT !.op = "test", !.config = emailConfig,
                        !.results = [email |-> FALSE, sms |-> FALSE]])
  /\ UNCHANGED <<storageVars, schedVars, checkerVars, now, histVars>>

\* sendTestSms is called: storage.getEmailConfig()
sendTestSmsCall(n, fr) == Suspend(n, "test_sms_config", [fr EXCEPT !.config = emailConfig])

\* the route's answer (routes.ts lines 124-135): 400 when neither flag is set
TestReturns(n, fr) ==
  Suspend(n, "done", [fr EXCEPT !.resp = IF fr.results.email \/ fr.results.sms THEN 200 ELSE 400])

\* A dispatcher without the try/catch around the e-mail test: the error reaches
\* the route's catch block.
TestEmailThrew_Propagates(n) ==
  Suspend(n, "done", [frame[n] EXCEPT !.emailOutcome = "threw", !.threw = TRUE, !.resp = 500])

\* sendTestEmail threw: the catch of line 123, then the SMS test
TestEmailThrew(n) == sendTestSmsCall(n, [frame[n] EXCEPT !.emailOutcome = "threw"])

\* after getEmailConfig: no configuration throws (emailService.ts lines 53-55);
\* else the transporter is built and sendMail is called
TestEmailConfigRead(n) ==
  /\ pc[n] = "test_email_config"
  /\ IF ~frame[n].config.present
     THEN TestEmailThrew(n)
     ELSE pc' = [pc EXCEPT ![n] = "test_email_sending"] /\ UNCHANGED frame
  /\ UNCHANGED <<storageVars, schedVars, checkerVars, now, histVars>>

\* sendMail resolves: results.email = true, then the SMS test
TestEmailSent(n) ==
  /\ pc[n] = "test_email_sending"
  /\ sendTestSmsCall(n, [frame[n] EXCEPT !.emailOutcome = "sent", !.results.email = TRUE])
  /\ UNCHANGED <<storageVars, schedVars, checkerVars, now, histVars>>

\* sendMail rejects
TestEmailSendFails(n) ==
  /\ pc[n] = "test_email_sending"
  /\ TestEmailThrew(n)
  /\ UNCHANGED <<storageVars, schedVars, checkerVars, now, histVars>>

\* after getEmailConfig: an incomplete or disabled SMS configuration throws
\* (part_002 lines 44-46), caught at line 131; else messages.create is called
TestSmsConfigRead(n) ==
  /\ pc[n] = "test_sms_config"
  /\ IF SmsUnconfigured(frame[n].config)
     THEN TestReturns(n, [frame[n] EXCEPT !.smsOutcome = "threw"])
     ELSE pc' = [pc EXCEPT ![n] = "test_sms_sending"] /\ UNCHANGED frame
  /\ UNCHANGED <<storageVars, schedVars, checkerVars, now, histVars>>

\* messages.create resolves: results.sms = true
TestSmsSent(n) ==
  /\ pc[n] = "test_sms_sending"
  /\ TestReturns(n, [frame[n] EXCEPT !.smsOutcome = "sent", !.results.sms = TRUE])
  /\ UNCHANGED <<storageVars, schedVars, checkerVars, now, histVars>>

\* the twilio client or messages.create throws
TestSmsSendFails(n) ==
  /\ pc[n] = "test_sms_sending"
  /\ TestReturns(n, [frame[n] EXCEPT !.smsOutcome = "threw"])
  /\ UNCHANGED <<storageVars, schedVars, checkerVars, now, histVars>>

\* ------------------------------------------------- /api/email-config routes
\* Request bodies of POST /api/email-config: valid says whether the body has the
\* fields insertEmailConfigSchema requires, with their types.
SmtpServers == {"smtp.a", "smtp.b"}
Secrets == {"secret1", "secret2"}
ConfigBodies ==
  [valid : BOOLEAN, smtpServer : SmtpServers, smtpPassword : Secrets, twilioAuthToken : Secrets]

\* insertEmailConfigSchema.parse on a valid body: a zod object schema keeps its own
\* keys and strips the others; the email_config table has no SMS column.
ParsedConfig(reqBody) ==
  [smtpServer |-> reqBody.smtpServer, smtpPassword |-> reqBody.smtpPassword]

\* MemStorage.upsertEmailConfig: the stored object is the parsed one (plus id and
\* updatedAt). smsEnabled and the Twilio fields are absent from it, so SmsService
\* reads them as undefined.
upsertEmailConfig(config) ==
  [present |-> TRUE, smsEnabled |-> FALSE, smsCreds |-> FALSE,
   smtpServer |-> config.smtpServer, smtpPassword |-> config.smtpPassword]

\* const { smtpPassword, twilioAuthToken, ...safeConfig } = config
SecretFields == {"smtpPassword", "twilioAuthToken"}

\* A response that sends the stored object as it is.
safeConfig_Echo(config) == config

safeConfig(config) == [f \in DOMAIN config \ SecretFields |-> config[f]]

NullBody == [null |-> TRUE]
ErrorBody(message) == [message |-> message]

configRest == <<dmvLocations, monitoringSettings, activityLogs, monitoringStats,
                schedVars, checkerVars, now, histVars>>

\* GET /api/email-config: storage.getEmailConfig() is called
GetConfigRequest(r) ==
  /\ NextFree(r, Reqs)
  /\ Suspend(r, "config_read", [frame[r] EXCEPT !.op = "config_get", !.config = emailConfig])
  /\ UNCHANGED <<emailConfig, configRest>>

\* lines 73-78: the response
GetConfigFinish(r) ==
  /\ pc[r] = "config_read"
  /\ Suspend(r, "done",
       [frame[r] EXCEPT !.resp = 200,
                        !.body = IF frame[r].config.present
                                 THEN safeConfig(frame[r].config) ELSE NullBody])
  /\ UNCHANGED <<emailConfig, configRest>>

\* POST /api/email-config: parse throws (400), or upsertEmailConfig is called
SaveConfigRequest(r, reqBody) ==
  /\ NextFree(r, Reqs)
  /\ IF reqBody.valid
     THEN /\ emailConfig' = upsertEmailConfig(ParsedConfig(reqBody))
          /\ Suspend(r, "config_upserted",
               [frame[r] EXCEPT !.op = "config_save",
                                !.config = upsertEmailConfig(ParsedConfig(reqBody))])
     ELSE /\ Suspend(r, "done",
               [frame[r] EXCEPT !.op = "config_save", !.resp = 400,
                                !.body = ErrorBody("Invalid email configuration")])
          /\ UNCHANGED emailConfig
  /\ UNCHANGED configRest

\* lines 89-91: the response
SaveConfigFinish(r) ==
  /\ pc[r] = "config_upserted"
  /\ Suspend(r, "done",
       [frame[r] EXCEPT !.resp = 200, !.body = safeConfig(frame[r].config)])
  /\ UNCHANGED <<emailConfig, configRest>>

\* ------------------------------------------------ /api/dmv-locations routes
\* The store's map of locations is a function on the ids present; ids stand for
\* positions in creation order, which is the order getDmvLocations sorts into.
\* Each route's effect on the store happens at its storage call; the response
\* that follows changes nothing else.
locationRest == <<emailConfig, monitoringSettings, activityLogs, monitoringStats,
                  schedVars, checkerVars, now, procVars, histVars>>

\* POST /api/dmv-locations: createDmvLocation stores the parsed body under a new id
CreateLocation(l, enabled) ==
  /\ l \in LocIds \ DOMAIN dmvLocations
  /\ \A m \in DOMAIN dmvLocations : m < l
  /\ dmvLocations' = [m \in DOMAIN dmvLocations \cup {l} |->
                        IF m = l THEN [enabled |-> enabled] ELSE dmvLocations[m]]
  /\ UNCHANGED locationRest

\* PATCH /api/dmv-locations/:id: updateDmvLocation stores { ...existing, ...updates },
\* or finds no location (404)
PatchLocation(l, enabled) ==
  /\ dmvLocations' = IF l \in DOMAIN dmvLocations
                     THEN [dmvLocations EXCEPT ![l] = [enabled |-> enabled]]
                     ELSE dmvLocations
  /\ dmvLocations' # dmvLocations
  /\ UNCHANGED locationRest

\* DELETE /api/dmv-locations/:id
DeleteLocation(l) ==
  /\ l \in DOMAIN dmvLocations
  /\ dmvLocations' = [m \in DOMAIN dmvLocations \ {l} |-> dmvLocations[m]]
  /\ UNCHANGED locationRest

\* ------------------------------------------------ SIGTERM / SIGINT handlers
signalRest == <<dmvLocations, emailConfig, monitoringSettings, monitoringStats,
                now, histVars, openPages, launched>>

\* The handler starts: appointmentChecker.close() calls browser.close() when a
\* browser is referenced (line 42), and returns at once when none is.
SignalReceived(r) ==
  /\ NextFree(r, Reqs)
  /\ Suspend(r, IF browser # 0 THEN "closing_browser" ELSE "closed",
             [frame[r] EXCEPT !.op = "shutdown", !.closing = browser])
  /\ UNCHANGED <<signalRest, activityLogs, schedVars, browser, liveBrowsers>>

\* browser.close() resolves: this.browser = null (line 43)
BrowserClosed(r) ==
  /\ pc[r] = "closing_browser"
  /\ liveBrowsers' = liveBrowsers \ {frame[r].closing}
  /\ browser' = 0
  /\ pc' = [pc EXCEPT ![r] = "closed"]
  /\ UNCHANGED <<signalRest, activityLogs, schedVars, frame>>

\* browser.close() rejects: close() throws and so does the handler; nothing
\* after the first await of the handler runs
BrowserCloseFails(r) ==
  /\ pc[r] = "closing_browser"
  /\ Suspend(r, "done", [frame[r] EXCEPT !.threw = TRUE])
  /\ UNCHANGED <<signalRest, activityLogs, schedVars, browser, liveBrowsers>>

\* close() has returned: monitoringService.stopMonitoring() is called
SignalStop(r) ==
  /\ pc[r] = "closed"
  /\ stopMonitoringCall
  /\ pc' = [pc EXCEPT ![r] = "signal_stopped"]
  /\ UNCHANGED <<signalRest, frame, browser, liveBrowsers>>

\* stopMonitoring returns and the handler ends
SignalDone(r) ==
  /\ pc[r] = "signal_stopped"
  /\ pc' = [pc EXCEPT ![r] = "done"]
  /\ UNCHANGED <<signalRest, activityLogs, schedVars, frame, browser, liveBrowsers>>

\* ------------------------------------------------------ getNextWorkingDays
\* A calendar day is its day number; day 0 is a Sunday, so Date.getDay() is the
\* day number modulo 7 (0 = Sunday, 6 = Saturday) and setDate(getDate() + 1) is + 1.
DaysPerWeek == 7
getDay(day) == day % DaysPerWeek

\* the while loop of lines 52-57, from the state (days, day)
RECURSIVE WalkDays(_, _, _, _)
WalkDays(days, day, count, businessDaysOnly) ==
  IF Len(days) < count
  THEN WalkDays(IF ~businessDaysOnly \/ (getDay(day) # 0 /\ getDay(day) # 6)
                THEN Append(days, day) ELSE days,
                day + 1, count, businessDaysOnly)
  ELSE days

\* A generator that starts its walk at tomorrow.
getNextWorkingDays_FromTomorrow(count, businessDaysOnly, today) ==
  WalkDays(<<>>, today + 1, count, businessDaysOnly)

getNextWorkingDays(count, businessDaysOnly, today) ==
  WalkDays(<<>>, today, count, businessDaysOnly)

\* checkAppointments line 73: targetDates = getNextWorkingDays(daysAhead, businessDaysOnly)
ComputeTargetDates(c) ==
  /\ pc[c] = "dates_call"
  /\ Suspend(c, "dates_done",
       [frame[c] EXCEPT !.days = getNextWorkingDays(frame[c].count,
                                   frame[c].businessDaysOnly, frame[c].today)])
  /\ UNCHANGED <<storageVars, schedVars, checkerVars, now, histVars>>

\* MonitoringService.getStatus (lines 266-272)
getStatus ==
  [isRunning |-> isRunning, startTime |-> startTime,
   uptime |-> IF startTime # 0 THEN now - startTime ELSE 0]

\* ------------------------------------------------------- slot extraction
\* An element's text is the set of the fragments of interest it contains, each a
\* pair of a string and the calendar day it spells (0 for a fragment that is not
\* a date): date strings, time strings, the word "available" in some spelling,
\* other words.  text.includes(s) is membership of s; {} is the empty text.

\* The five dateFormats of lines 109-115 for a target date, all of them computed
\* from the LOCAL calendar day of the Date object.
dateFormats(day) ==
  << <<"Mon, Jan 5", day>>, <<"Jan 5", day>>, <<"1/5", day>>, <<"1/5", day>>, <<"5", day>> >>

\* timePatterns (lines 117-120), case-insensitive: the time strings they match
TimeStrings == {<<"10:30 AM", 0>>, <<"9am", 0>>}
OtherStrings == {<<"10:30", 0>>, <<"available", 0>>, <<"Available", 0>>, <<"Book now", 0>>}

\* String.toLowerCase on a fragment
toLowerCase(s) == IF s[1] = "Available" THEN <<"available", s[2]>> ELSE s

matchesDate(text, day) == \E i \in DOMAIN dateFormats(day) : dateFormats(day)[i] \in text
hasTime(text) == \E s \in text : s \in TimeStrings
includesAvailable(text) == \E s \in text : toLowerCase(s) = <<"available", 0>>

\* date.toISOString().split('T')[0]: the UTC calendar day of the instant, which
\* is the local calendar day shifted by utcShift (-1, 0 or 1, depending on the
\* server's time zone and the time of day)
toISODate(day, utcShift) == <<"date", day + utcShift>>

\* lines 107-133 for one element: one slot per matching target date, in order
RECURSIVE TextSlotsOf(_, _, _, _)
TextSlotsOf(l, text, targetDates, utcShift) ==
  IF targetDates = <<>> THEN <<>>
  ELSE (IF matchesDate(text, Head(targetDates)) /\ (hasTime(text) \/ includesAvailable(text))
        THEN << [location |-> l, date |-> toISODate(Head(targetDates), utcShift),
                 time |-> text] >>
        ELSE <<>>)
       \o TextSlotsOf(l, text, Tail(targetDates), utcShift)

\* lines 104-135: the loop over the elements the first query returned
RECURSIVE TextStrategy(_, _, _, _)
TextStrategy(l, slots, targetDates, utcShift) ==
  IF slots = <<>> THEN <<>>
  ELSE TextSlotsOf(l, Head(slots), targetDates, utcShift)
       \o TextStrategy(l, Tail(slots), targetDates, utcShift)

\* the filter and map inside the second $$eval (lines 140-150): "" is a missing attribute
RECURSIVE calendarQuery(_)
calendarQuery(elements) ==
  IF elements = <<>> THEN <<>>
  ELSE (IF ~Head(elements).disabled /\ Head(elements).text # {}
        THEN << [text |-> Head(elements).text, date |-> Head(elements).date,
                 time |-> Head(elements).time] >>
        ELSE <<>>)
       \o calendarQuery(Tail(elements))

\* lines 153-162: the loop over the elements the second query returned
RECURSIVE CalendarStrategy(_, _, _, _)
CalendarStrategy(l, calendarSlots, today, utcShift) ==
  IF calendarSlots = <<>> THEN <<>>
  ELSE LET slot == Head(calendarSlots)
       IN (IF slot.date # "" \/ slot.time # ""
           THEN << [location |-> l,
                    date |-> IF slot.date # "" THEN slot.date ELSE toISODate(today, utcShift),
                    time |-> IF slot.time # "" THEN slot.time ELSE slot.text] >>
           ELSE <<>>)
          \o CalendarStrategy(l, Tail(calendarSlots), today, utcShift)

\* Lines 93-162 for one page of location 1: both queries (a failing query is
\* caught and gives the empty list) and both loops.
ExtractPage(c) ==
  /\ pc[c] = "extract_call"
  /\ LET fr == frame[c]
         slots == IF fr.textQueryFails THEN <<>> ELSE fr.pageSlots
         calendarSlots == IF fr.calendarQueryFails THEN <<>> ELSE calendarQuery(fr.calendarSlots)
     IN Suspend(c, "extract_done",
          [fr EXCEPT !.textFound = TextStrategy(1, slots, fr.targetDates, fr.utcShift),
                     !.calendarFound = CalendarStrategy(1, calendarSlots, fr.today, fr.utcShift)])
  /\ UNCHANGED <<storageVars, schedVars, checkerVars, now, histVars>>

\* ---------------------------------------------------------- specifications
\* The state after construction (MemStorage.initializeDefaultData, the services'
\* field initialisers).
InitFresh ==
  /\ dmvLocations \in [LocIds -> [enabled : BOOLEAN]]
  /\ emailConfig = NoEmailConfig
  /\ monitoringSettings = DefaultSettings
  /\ activityLogs = <<>>
  /\ monitoringStats = DefaultStats
  /\ task = 0 /\ isRunning = FALSE /\ startTime = 0 /\ cronTasks = <<>>
  /\ browser = 0 /\ launched = 0 /\ liveBrowsers = {} /\ openPages = 0
  /\ now = 1
  /\ pc = [p \in Procs |-> "idle"]
  /\ frame = [p \in Procs |-> EmptyFrame]
  /\ overlapped = [r \in Reqs |-> FALSE]
  /\ emailCalls = <<>> /\ smsCalls = <<>>

\* Scheduler control: start, stop and save-settings requests in any interleaving,
\* from the state after construction.
InitSched ==
  /\ InitFresh
  /\ dmvLocations = [l \in LocIds |-> [enabled |-> TRUE]]

NextSched ==
  \/ \E r \in Reqs : StartRequest(r)
  \/ \E r \in Reqs : StartResume(r)
  \/ \E r \in Reqs : StartFinish(r)
  \/ \E r \in Reqs : StopRequest(r)
  \/ \E r \in Reqs : StopFinish(r)
  \/ \E r \in Reqs, payload \in SettingsInputs : SaveRequest(r, payload)
  \/ \E r \in Reqs : SaveResume(r)
  \/ Advance

SpecSched == InitSched /\ [][NextSched]_vars


\* Check cycles: cron ticks and check-now requests in any interleaving. The
\* scheduler is Stopped as constructed, or Running after a save of enabled
\* settings and a start; the notification e-mail is configured or not.
SavedEmailConfigs == {[present |-> TRUE, smsEnabled |-> FALSE, smsCreds |-> FALSE]}

InitCycle ==
  /\ dmvLocations \in [LocIds -> [enabled : BOOLEAN]]
  /\ emailConfig \in {NoEmailConfig} \cup SavedEmailConfigs
  /\ \/ /\ monitoringSettings = DefaultSettings
        /\ activityLogs = <<>>
        /\ task = 0 /\ isRunning = FALSE /\ startTime = 0 /\ cronTasks = <<>>
     \/ /\ monitoringSettings = [isEnabled |-> TRUE, checkInterval |-> 60]
        /\ activityLogs = <<LogEntry("monitoring_started", "Monitoring Started", 0, 1, NoSlots)>>
        /\ task = 1 /\ isRunning = TRUE /\ startTime = 1
        /\ cronTasks = <<[interval |-> 1, running |-> TRUE]>>
  /\ monitoringStats = DefaultStats
  /\ browser = 0 /\ launched = 0 /\ liveBrowsers = {} /\ openPages = 0
  /\ now = 1
  /\ pc = [p \in Procs |-> "idle"]
  /\ frame = [p \in Procs |-> EmptyFrame]
  /\ overlapped = [r \in Reqs |-> FALSE]
  /\ emailCalls = <<>> /\ smsCalls = <<>>

NextCycle ==
  \/ \E c \in Cycles : Tick(c)
  \/ \E c \in Cycles : CheckNow(c)
  \/ \E c \in Cycles : LaunchOk(c)
  \/ \E c \in Cycles : LaunchFails(c)
  \/ \E c \in Cycles : ReadLocations(c)
  \/ \E c \in Cycles : ReadSettings(c)
  \/ \E c \in Cycles : OpenPage(c)
  \/ \E c \in Cycles : PageOpened(c)
  \/ \E c \in Cycles : PageOpenFails(c)
  \/ \E c \in Cycles, k \in 0..MaxSlotsPerLoc : LocationOk(c, k)
  \/ \E c \in Cycles : LocationFails(c)
  \/ \E c \in Cycles : PageClosed(c)
  \/ \E c \in Cycles : PageCloseFails(c)
  \/ \E c \in Cycles : ReadStats(c)
  \/ \E c \in Cycles : WriteStats(c)
  \/ \E c \in Cycles : AfterStats(c)
  \/ \E c \in Cycles : LogCompleted(c)
  \/ \E c \in Cycles : EmailConfigRead(c)
  \/ \E c \in Cycles : EmailSent(c)
  \/ \E c \in Cycles : EmailSendFails(c)
  \/ \E c \in Cycles : EmailWriteStats(c)
  \/ \E c \in Cycles : EmailReturns(c)

SpecCycle == InitCycle /\ [][NextCycle]_vars

\* One check cycle, from construction.
Solo ==
  \A c \in Cycles : (pc[c] = "idle" /\ pc'[c] # "idle") => \A d \in Cycles : pc[d] = "idle"

SpecChecker == InitCycle /\ [][NextCycle /\ Solo]_vars

\* The dispatcher: NotificationService.sendAppointmentNotification calls in any
\* interleaving, with no notification configuration or any saved one.
NotifyConfigs == [present : {TRUE}, smsEnabled : BOOLEAN, smsCreds : BOOLEAN]

NotifyInputs == {SlotsOf(1, k) : k \in 1..MaxSlotsPerLoc}

InitNotify ==
  /\ dmvLocations = [l \in LocIds |-> [enabled |-> TRUE]]
  /\ emailConfig \in {NoEmailConfig} \cup NotifyConfigs
  /\ monitoringSettings = DefaultSettings
  /\ activityLogs = <<>>
  /\ monitoringStats = DefaultStats
  /\ task = 0 /\ isRunning = FALSE /\ startTime = 0 /\ cronTasks = <<>>
  /\ browser = 0 /\ launched = 0 /\ liveBrowsers = {} /\ openPages = 0
  /\ now = 1
  /\ pc = [p \in Procs |-> "idle"]
  /\ frame = [p \in Procs |-> EmptyFrame]
  /\ overlapped = [r \in Reqs |-> FALSE]
  /\ emailCalls = <<>> /\ smsCalls = <<>>

NextNotify ==
  \/ \E n \in Notifiers, slots \in NotifyInputs : NotifyCall(n, slots)
  \/ \E n \in Notifiers : EmailConfigRead(n)
  \/ \E n \in Notifiers : EmailSent(n)
  \/ \E n \in Notifiers : EmailSendFails(n)
  \/ \E n \in Notifiers : EmailWriteStats(n)
  \/ \E n \in Notifiers : EmailReturns(n)
  \/ \E n \in Notifiers : SmsConfigRead(n)
  \/ \E n \in Notifiers : SmsSent(n)
  \/ \E n \in Notifiers : SmsSendFails(n)
  \/ \E n \in Notifiers : SmsWriteStats(n)
  \/ \E n \in Notifiers : SmsReturns(n)

SpecNotify == InitNotify /\ [][NextNotify]_vars

\* The target-date generator on its own: every days-ahead count the settings form
\* admits, both flags, and today on every day of the week.
MaxDaysAhead == 30
DateCaller == <<"cycle", 1>>

InitDates ==
  /\ dmvLocations = [l \in LocIds |-> [enabled |-> TRUE]]
  /\ emailConfig = NoEmailConfig
  /\ monitoringSettings = DefaultSettings
  /\ activityLogs = <<>>
  /\ monitoringStats = DefaultStats
  /\ task = 0 /\ isRunning = FALSE /\ startTime = 0 /\ cronTasks = <<>>
  /\ browser = 0 /\ launched = 0 /\ liveBrowsers = {} /\ openPages = 0
  /\ now = 1
  /\ overlapped = [r \in Reqs |-> FALSE]
  /\ emailCalls = <<>> /\ smsCalls = <<>>
  /\ \E count \in 1..MaxDaysAhead, businessDaysOnly \in BOOLEAN, today \in 0..(DaysPerWeek - 1) :
       /\ pc = [p \in Procs |-> IF p = DateCaller THEN "dates_call" ELSE "idle"]
       /\ frame = [p \in Procs |->
                     IF p = DateCaller
                     THEN [EmptyFrame EXCEPT !.count = count,
                                             !.businessDaysOnly = businessDaysOnly,
                                             !.today = today]
                     ELSE EmptyFrame]

NextDates == ComputeTargetDates(DateCaller)

SpecDates == InitDates /\ [][NextDates]_vars

\* Scheduler control from a stopped server whose settings were saved enabled
\* before, with any interval the settings route stores.
InitSaved ==
  /\ dmvLocations = [l \in LocIds |-> [enabled |-> TRUE]]
  /\ emailConfig = NoEmailConfig
  /\ monitoringSettings \in [isEnabled : {TRUE}, checkInterval : CheckIntervals]
  /\ activityLogs = <<>>
  /\ monitoringStats = DefaultStats
  /\ task = 0 /\ isRunning = FALSE /\ startTime = 0 /\ cronTasks = <<>>
  /\ browser = 0 /\ launched = 0 /\ liveBrowsers = {} /\ openPages = 0
  /\ now = 1
  /\ pc = [p \in Procs |-> "idle"]
  /\ frame = [p \in Procs |-> EmptyFrame]
  /\ overlapped = [r \in Reqs |-> FALSE]
  /\ emailCalls = <<>> /\ smsCalls = <<>>

SpecSaved == InitSaved /\ [][NextSched]_vars

\* Shutdown: a termination signal arrives before, during or after one check
\* cycle; no cycle begins once a signal has been received.
NextSignal ==
  \/ \E r \in Reqs : SignalReceived(r)
  \/ \E r \in Reqs : BrowserClosed(r)
  \/ \E r \in Reqs : BrowserCloseFails(r)
  \/ \E r \in Reqs : SignalStop(r)
  \/ \E r \in Reqs : SignalDone(r)

NoCycleAfterSignal ==
  \A c \in Cycles : (pc[c] = "idle" /\ pc'[c] # "idle") => \A r \in Reqs : pc[r] = "idle"

SpecShutdown ==
  InitCycle /\ [][(NextCycle \/ NextSignal) /\ Solo /\ NoCycleAfterSignal]_vars

\* One check cycle while locations are created, toggled and deleted.
InitLocations ==
  /\ \E k \in 0..MaxLocs : dmvLocations \in [1..k -> [enabled : BOOLEAN]]
  /\ emailConfig \in {NoEmailConfig} \cup SavedEmailConfigs
  /\ \/ /\ monitoringSettings = DefaultSettings
        /\ activityLogs = <<>>
        /\ task = 0 /\ isRunning = FALSE /\ startTime = 0 /\ cronTasks = <<>>
     \/ /\ monitoringSettings = [isEnabled |-> TRUE, checkInterval |-> 60]
        /\ activityLogs = <<LogEntry("monitoring_started", "Monitoring Started", 0, 1, NoSlots)>>
        /\ task = 1 /\ isRunning = TRUE /\ startTime = 1
        /\ cronTasks = <<[interval |-> 1, running |-> TRUE]>>
  /\ monitoringStats = DefaultStats
  /\ browser = 0 /\ launched = 0 /\ liveBrowsers = {} /\ openPages = 0
  /\ now = 1
  /\ pc = [p \in Procs |-> "idle"]
  /\ frame = [p \in Procs |-> EmptyFrame]
  /\ overlapped = [r \in Reqs |-> FALSE]
  /\ emailCalls = <<>> /\ smsCalls = <<>>

NextLocations ==
  \/ \E l \in LocIds, enabled \in BOOLEAN : CreateLocation(l, enabled)
  \/ \E l \in LocIds, enabled \in BOOLEAN : PatchLocation(l, enabled)
  \/ \E l \in LocIds : DeleteLocation(l)

SpecLocations == InitLocations /\ [][(NextCycle \/ NextLocations) /\ Solo]_vars

\* One check cycle on a store that holds any notification configuration,
\* SMS-enabled ones included (upsertEmailConfig keeps every field of the object
\* it is handed).
InitFound ==
  /\ dmvLocations \in [LocIds -> [enabled : BOOLEAN]]
  /\ emailConfig \in NotifyConfigs
  /\ \/ /\ monitoringSettings = DefaultSettings
        /\ activityLogs = <<>>
        /\ task = 0 /\ isRunning = FALSE /\ startTime = 0 /\ cronTasks = <<>>
     \/ /\ monitoringSettings = [isEnabled |-> TRUE, checkInterval |-> 60]
        /\ activityLogs = <<LogEntry("monitoring_started", "Monitoring Started", 0, 1, NoSlots)>>
        /\ task = 1 /\ isRunning = TRUE /\ startTime = 1
        /\ cronTasks = <<[interval |-> 1, running |-> TRUE]>>
  /\ monitoringStats = DefaultStats
  /\ browser = 0 /\ launched = 0 /\ liveBrowsers = {} /\ openPages = 0
  /\ now = 1
  /\ pc = [p \in Procs |-> "idle"]
  /\ frame = [p \in Procs |-> EmptyFrame]
  /\ overlapped = [r \in Reqs |-> FALSE]
  /\ emailCalls = <<>> /\ smsCalls = <<>>

SpecFound == InitFound /\ [][NextCycle /\ Solo]_vars

\* Check cycles one after the other: a cycle begins only when none is in flight.
Serial ==
  \A c \in Cycles : (pc[c] = "idle" /\ pc'[c] # "idle") => \A d \in Cycles : ~InFlight(d)

SpecSerial == InitCycle /\ [][NextCycle /\ Serial]_vars

\* Test notifications: POST /api/notifications/test requests in any
\* interleaving, with no notification configuration or any saved one.
NextTest ==
  \/ \E n \in Notifiers : TestCall(n)
  \/ \E n \in Notifiers : TestEmailConfigRead(n)
  \/ \E n \in Notifiers : TestEmailSent(n)
  \/ \E n \in Notifiers : TestEmailSendFails(n)
  \/ \E n \in Notifiers : TestSmsConfigRead(n)
  \/ \E n \in Notifiers : TestSmsSent(n)
  \/ \E n \in Notifiers : TestSmsSendFails(n)

SpecTest == InitNotify /\ [][NextTest]_vars

\* A monitoring session: start and stop requests, check-now requests and cron
\* ticks, one at a time, while the clock advances between them.  One location
\* is enabled; the notification e-mail is configured or not.
InitSession ==
  /\ dmvLocations = [l \in LocIds |-> [enabled |-> l = 1]]
  /\ emailConfig \in {NoEmailConfig} \cup SavedEmailConfigs
  /\ monitoringSettings = [isEnabled |-> TRUE, checkInterval |-> 60]
  /\ activityLogs = <<>>
  /\ monitoringStats = DefaultStats
  /\ task = 0 /\ isRunning = FALSE /\ startTime = 0 /\ cronTasks = <<>>
  /\ browser = 0 /\ launched = 0 /\ liveBrowsers = {} /\ openPages = 0
  /\ now = 1
  /\ pc = [p \in Procs |-> "idle"]
  /\ frame = [p \in Procs |-> EmptyFrame]
  /\ overlapped = [r \in Reqs |-> FALSE]
  /\ emailCalls = <<>> /\ smsCalls = <<>>

NextSession ==
  \/ \E r \in Reqs : StartRequest(r)
  \/ \E r \in Reqs : StartResume(r)
  \/ \E r \in Reqs : StartFinish(r)
  \/ \E r \in Reqs : StopRequest(r)
  \/ \E r \in Reqs : StopFinish(r)
  \/ Advance
  \/ NextCycle

Sequential ==
  \A p \in Procs : (pc[p] = "idle" /\ pc'[p] # "idle") => \A q \in Procs : ~InFlight(q)

SpecSession == InitSession /\ [][NextSession /\ Sequential]_vars

\* The extraction of one page on its own: every page of up to MaxMarked marked
\* elements and MaxCells calendar elements, each query failing or not, the
\* server's UTC day behind, equal to or ahead of its local day; today is a
\* Monday and the settings ask for the next two days.
MaxMarked == 2
MaxCells == 1
Today == 1
ExtractDaysAhead == 2

Texts ==
  { {}, {<<"Book now", 0>>}, {<<"available", 0>>}, {<<"Jan 5", Today>>},
    {<<"Jan 5", Today>>, <<"10:30 AM", 0>>}, {<<"5", Today + 1>>, <<"Available", 0>>},
    {<<"1/5", Today>>, <<"10:30", 0>>}, {<<"Mon, Jan 5", Today + 2>>, <<"9am", 0>>},
    {<<"5", Today>>, <<"5", Today + 1>>, <<"9am", 0>>} }

CalendarElements ==
  [text : {{}, {<<"Book now", 0>>}}, disabled : BOOLEAN, date : {"", "2026-01-05"}, time : {"", "10:30"}]

RECURSIVE SeqsUpTo(_, _)
SeqsUpTo(S, n) ==
  IF n = 0 THEN {<<>>}
  ELSE SeqsUpTo(S, n - 1) \cup {Append(s, x) : s \in {q \in SeqsUpTo(S, n - 1) : Len(q) = n - 1}, x \in S}

InitExtract ==
  /\ dmvLocations = [l \in LocIds |-> [enabled |-> TRUE]]
  /\ emailConfig = NoEmailConfig
  /\ monitoringSettings = DefaultSettings
  /\ activityLogs = <<>>
  /\ monitoringStats = DefaultStats
  /\ task = 0 /\ isRunning = FALSE /\ startTime = 0 /\ cronTasks = <<>>
  /\ browser = 0 /\ launched = 0 /\ liveBrowsers = {} /\ openPages = 0
  /\ now = 1
  /\ overlapped = [r \in Reqs |-> FALSE]
  /\ emailCalls = <<>> /\ smsCalls = <<>>
  /\ pc = [p \in Procs |-> IF p = DateCaller THEN "extract_call" ELSE "idle"]
  /\ \E pageSlots \in SeqsUpTo(Texts, MaxMarked), calendarSlots \in SeqsUpTo(CalendarElements, MaxCells),
        textQueryFails \in BOOLEAN, calendarQueryFails \in BOOLEAN, utcShift \in {-1, 0, 1} :
       frame = [p \in Procs |->
                  IF p = DateCaller
                  THEN [EmptyFrame EXCEPT !.pageSlots = pageSlots,
                                          !.calendarSlots = calendarSlots,
                                          !.textQueryFails = textQueryFails,
                                          !.calendarQueryFails = calendarQueryFails,
                                          !.utcShift = utcShift,
                                          !.today = Today,
                                          !.targetDates = getNextWorkingDays(ExtractDaysAhead, FALSE, Today)]
                  ELSE EmptyFrame]

NextExtract == ExtractPage(DateCaller)

SpecExtract == InitExtract /\ [][NextExtract]_vars

\* The notification-configuration endpoints, in any interleaving, from the state
\* after construction.
InitConfig ==
  /\ InitFresh
  /\ dmvLocations = [l \in LocIds |-> [enabled |-> TRUE]]

NextConfig ==
  \/ \E r \in Reqs : GetConfigRequest(r)
  \/ \E r \in Reqs : GetConfigFinish(r)
  \/ \E r \in Reqs, reqBody \in ConfigBodies : SaveConfigRequest(r, reqBody)
  \/ \E r \in Reqs : SaveConfigFinish(r)

SpecConfig == InitConfig /\ [][NextConfig]_vars

\* ------------------------------------------------------------------ claims
ActiveTasks == {i \in DOMAIN cronTasks : cronTasks[i].running}

StoppedEntries == CountType(activityLogs, "monitoring_stopped")

\* C3: a start whose settings read found isEnabled = false fails with the
\* configuration error (the start route answers 400) and that step changes
\* neither isRunning, the task, the cron tasks, startTime nor the activity log;
\* when no other request overlapped the call the scheduler is Stopped after it.
C3_DisabledStartRejected ==
  [][\A r \in Reqs :
       (pc[r] = "start_settings" /\ pc'[r] # "start_settings"
          /\ frame[r].op = "start" /\ ~frame[r].settings.isEnabled)
       => /\ pc'[r] = "done" /\ frame'[r].resp = 400
          /\ UNCHANGED <<isRunning, task, cronTasks, startTime, activityLogs>>
          /\ (~overlapped[r] => ~isRunning' /\ ActiveTasks' = {})]_vars

C3_Witness ==
  \E r \in Reqs :
    /\ pc[r] = "done" /\ frame[r].op = "start" /\ frame[r].resp = 400
    /\ ~frame[r].wasRunning /\ ~frame[r].settings.isEnabled
    /\ ~isRunning /\ task = 0 /\ startTime = 0 /\ activityLogs = <<>>

\* C4: stop on a Stopped scheduler is a no-op: every monitoring_stopped entry
\* appended to the activity log comes with a Running -> Stopped transition.
C4_StopIdempotent ==
  [][StoppedEntries' > StoppedEntries => (isRunning /\ ~isRunning')]_vars

\* C5 as claimed, for calls no other request overlaps: an updateSettings called
\* while Running leaves the scheduler Running when it completes, with exactly one
\* trigger, its period derived from the stored check-interval.
C5_UpdateSettingsKeepsRunning ==
  [][\A r \in Reqs :
       (frame'[r].op = "save" /\ frame'[r].wasRunning /\ pc[r] # "done"
          /\ pc'[r] = "done" /\ ~overlapped'[r])
       => /\ isRunning'
          /\ ActiveTasks' = {task'}
          /\ cronTasks'[task'].interval = monitoringSettings'.checkInterval \div 60]_vars

\* C5 amended: an updateSettings no other request overlaps, called while Running,
\* completes Running with exactly one trigger of period floor(checkInterval / 60)
\* when the stored settings are enabled with checkInterval >= 60, and otherwise
\* completes Stopped with no trigger and the route answers 400; called while
\* Stopped it returns at once, changing no scheduler state and no log.
C5_UpdateSettingsRestarts ==
  [][\A r \in Reqs :
       /\ (frame'[r].op = "save" /\ frame'[r].wasRunning /\ pc[r] # "done"
             /\ pc'[r] = "done" /\ ~overlapped'[r])
          => IF monitoringSettings'.isEnabled /\ monitoringSettings'.checkInterval >= 60
             THEN /\ isRunning'
                  /\ ActiveTasks' = {task'}
                  /\ cronTasks'[task'].interval = monitoringSettings'.checkInterval \div 60
                  /\ frame'[r].resp = 200
             ELSE /\ ~isRunning'
                  /\ ActiveTasks' = {}
                  /\ frame'[r].resp = 400
       /\ (pc[r] = "save_upserted" /\ pc'[r] # "save_upserted" /\ ~isRunning)
          => /\ pc'[r] = "done" /\ frame'[r].resp = 200
             /\ UNCHANGED <<schedVars, activityLogs>>]_vars

C5_Witness ==
  \E r \in Reqs :
    /\ pc[r] = "done" /\ frame[r].op = "save" /\ frame[r].wasRunning
    /\ ~overlapped[r] /\ frame[r].resp = 200
    /\ isRunning /\ ActiveTasks = {task} /\ Len(cronTasks) = 2
    /\ cronTasks[2].interval = frame[r].payload.checkInterval \div 60
    /\ cronTasks[2].interval # cronTasks[1].interval


\* -------------------------------------------------------- claims on cycles
CyclesInFlight == {c \in Cycles : InFlight(c)}

RECURSIVE SumSlots(_)
SumSlots(S) ==
  IF S = {} THEN 0
  ELSE LET c == CHOOSE x \in S : TRUE IN Len(frame[c].slots) + SumSlots(S \ {c})

Returned == {c \in Cycles : frame[c].checker = "returned"}

\* the cycle c has completed and no other cycle has begun
OnlyCycle(c) == pc[c] = "done" /\ \A d \in Cycles \ {c} : pc[d] = "idle"

FoundEntries == {i \in DOMAIN activityLogs : activityLogs[i].type = "appointment_found"}

\* C1: at most one check cycle (performCheck, from its call to the Checker until
\* its outcome entry is appended) is in progress in any reachable state.
C1_OneCycleAtATime == Cardinality(CyclesInFlight) <= 1

\* C2: once all cycles have completed, totalChecks equals the number of cycles
\* whose Checker returned normally and appointmentsFound the sum of their slot
\* counts (both counters start at 0): no stats update is lost.
C2_NoLostStatsUpdate ==
  CyclesInFlight = {}
  => /\ monitoringStats.totalChecks = Cardinality(Returned)
     /\ monitoringStats.appointmentsFound = SumSlots(Returned)

\* C6: one cycle, alone, whose Checker returned k >= 1 slots: totalChecks grew
\* by 1, appointmentsFound by k, one appointment_found entry was appended and
\* the notification was invoked exactly once, with those k slots.
C6_FoundCycleRecorded ==
  \A c \in Cycles :
    (OnlyCycle(c) /\ frame[c].checker = "returned" /\ Len(frame[c].slots) >= 1)
    => /\ monitoringStats.totalChecks = frame[c].statsBefore.totalChecks + 1
       /\ monitoringStats.appointmentsFound
            = frame[c].statsBefore.appointmentsFound + Len(frame[c].slots)
       /\ Cardinality(FoundEntries) = 1
       /\ emailCalls = << <<c, frame[c].slots>> >>

\* C7: every completed cycle whose Checker returned at least one slot appended an
\* appointment_found entry carrying those slots, whatever the notification did.
C7_FoundSurvivesNotification ==
  \A c \in Cycles :
    (pc[c] = "done" /\ frame[c].checker = "returned" /\ Len(frame[c].slots) >= 1)
    => /\ frame[c].outcome = "appointment_found"
       /\ \E i \in FoundEntries : activityLogs[i].slots = frame[c].slots

\* C8: a cycle, alone, whose Checker call threw appended an error entry and the
\* stats were still updated: totalChecks grew by 1 and lastCheckTime is set.
C8_FailedCycleCounted ==
  \A c \in Cycles :
    (OnlyCycle(c) /\ frame[c].checker = "threw")
    => /\ frame[c].outcome = "error"
       /\ monitoringStats.totalChecks = frame[c].statsBefore.totalChecks + 1
       /\ monitoringStats.lastCheckTime # 0


\* ------------------------------------------------------- claims on the checker
RECURSIVE Flatten(_)
Flatten(ys) ==
  IF ys = <<>> THEN <<>> ELSE SlotsOf(Head(ys)[1], Head(ys)[2]) \o Flatten(Tail(ys))

Range(s) == {s[i] : i \in DOMAIN s}

Occurrences(s, x) == Cardinality({i \in DOMAIN s : s[i] = x})

RECURSIVE FailuresOf(_, _)
FailuresOf(l, S) ==
  IF S = {} THEN 0
  ELSE LET c == CHOOSE x \in S : TRUE
       IN Occurrences(frame[c].failed, l) + FailuresOf(l, S \ {c})

LocationErrors(l) ==
  Cardinality({i \in DOMAIN activityLogs :
                 activityLogs[i].type = "error" /\ activityLogs[i].loc = l})

LeftLoop(c) == pc[c] \in {"closing_page", "checked", "stats_read", "stats_written",
                          "count_read", "email_config", "email_sending", "email_stats",
                          "email_done", "done"}

CheckerEnded(c) == LeftLoop(c) /\ pc[c] # "closing_page"

\* the log holds one error entry naming l per failure of l, none for a success
ErrorsMatchFailures == \A l \in LocIds : LocationErrors(l) = FailuresOf(l, Cycles)

\* every enabled location of the snapshot was visited, failed ones included
VisitedAll(c) ==
  /\ frame[c].idx = Len(frame[c].locations) + 1
  /\ Range(frame[c].failed) \cup {y[1] : y \in Range(frame[c].yields)} = Range(frame[c].locations)
  /\ Len(frame[c].failed) + Len(frame[c].yields) = Len(frame[c].locations)

SmsAttempts(n) == Occurrences([i \in 1..Len(smsCalls) |-> smsCalls[i][1]], n)

\* C10: every completed NotificationService.sendAppointmentNotification call has
\* invoked the SMS service exactly once, whether the e-mail send returned or
\* threw; 'email' is recorded exactly when the e-mail send returned, whatever
\* the SMS send did; and the call returned normally, also when both threw.
C10_ChannelsIndependent ==
  \A n \in Notifiers :
    pc[n] = "done" =>
      /\ frame[n].emailOutcome \in {"sent", "threw"}
      /\ frame[n].smsOutcome \in {"sent", "skipped", "threw"}
      /\ SmsAttempts(n) = 1
      /\ ("email" \in Range(frame[n].results)) <=> (frame[n].emailOutcome = "sent")
      /\ ("SMS" \in Range(frame[n].results)) <=> (frame[n].smsOutcome # "threw")
      /\ ~frame[n].threw

\* C10 witness: a call in which both channels threw has completed, and another in
\* which the e-mail was sent although the SMS threw.
C10_Witness ==
  /\ \E n \in Notifiers :
       /\ pc[n] = "done" /\ ~frame[n].threw
       /\ frame[n].emailOutcome = "threw" /\ frame[n].smsOutcome = "threw"
       /\ frame[n].results = <<>>
  /\ \E n \in Notifiers :
       /\ pc[n] = "done"
       /\ frame[n].emailOutcome = "sent" /\ frame[n].smsOutcome = "threw"
       /\ frame[n].results = <<"email">>

\* ---------------------------------------------------------------- C11
\* the channels whose send delivered a message, in dispatch order
Delivered(n) ==
  (IF frame[n].emailOutcome = "sent" THEN <<"email">> ELSE <<>>)
    \o (IF frame[n].smsOutcome = "sent" THEN <<"SMS">> ELSE <<>>)

NotificationEntries ==
  SelectSeq(activityLogs, LAMBDA e : e.type = "notification_sent")

\* the dispatcher call n has completed and no other one has begun
OnlyNotify(n) == pc[n] = "done" /\ \A m \in Notifiers \ {n} : pc[m] = "idle"

\* C11: after one NotificationService.sendAppointmentNotification call the log
\* holds one notification_sent entry if and only if some channel delivered, and
\* that entry names exactly the channels that delivered: never a channel that
\* was skipped as unconfigured or whose send threw.
C11_EntryNamesDeliveredChannels ==
  \A n \in Notifiers :
    OnlyNotify(n)
    => IF Delivered(n) = <<>>
       THEN NotificationEntries = <<>>
       ELSE /\ Len(NotificationEntries) = 1
            /\ NotificationEntries[1].slots = Delivered(n)

\* ---------------------------------------------------------------- C12
Admissible(day, businessDaysOnly) ==
  ~businessDaysOnly \/ (getDay(day) # 0 /\ getDay(day) # 6)

\* C12: for every count in 1..30, both flags and every weekday of today,
\* getNextWorkingDays returns exactly count days, strictly increasing, none
\* before today, today first when it is admissible, no Saturday or Sunday when
\* businessDaysOnly, and no admissible day skipped between first and last.
C12_TargetDates ==
  LET f == frame[DateCaller]
      d == f.days
  IN pc[DateCaller] = "dates_done"
     => /\ Len(d) = f.count
        /\ \A i \in 1..(Len(d) - 1) : d[i] < d[i + 1]
        /\ \A i \in 1..Len(d) : d[i] >= f.today /\ Admissible(d[i], f.businessDaysOnly)
        /\ Admissible(f.today, f.businessDaysOnly) => d[1] = f.today
        /\ \A x \in d[1]..d[Len(d)] :
             Admissible(x, f.businessDaysOnly) => x \in Range(d)

\* C12 witness: a business-days walk asked on a Saturday for 30 days has returned.
C12_Witness ==
  /\ pc[DateCaller] = "dates_done"
  /\ frame[DateCaller].count = MaxDaysAhead
  /\ frame[DateCaller].businessDaysOnly
  /\ frame[DateCaller].today = 6
  /\ frame[DateCaller].days[1] = 8
  /\ Len(frame[DateCaller].days) = MaxDaysAhead

\* ---------------------------------------------------------------- C13
ConfigResponses == {r \in Reqs : pc[r] = "done" /\ frame[r].op \in {"config_get", "config_save"}}

\* what a configuration is apart from its secret fields
WithoutSecrets(config) == [f \in DOMAIN config \ SecretFields |-> config[f]]

\* C13: no response of GET or POST /api/email-config has an smtpPassword or a
\* twilioAuthToken field, and two responses to configurations that differ only
\* in their secret fields are identical.
C13_SecretsNotEchoed ==
  /\ \A r \in ConfigResponses : DOMAIN frame[r].body \cap SecretFields = {}
  /\ \A r, q \in ConfigResponses :
       (/\ frame[r].resp = 200 /\ frame[q].resp = 200
        /\ WithoutSecrets(frame[r].config) = WithoutSecrets(frame[q].config))
       => frame[r].body = frame[q].body

\* C13 witness: two configurations that differ only in the password were saved,
\* one of them was read back, and all three requests were answered 200.
C13_Witness ==
  \E r, q, g \in ConfigResponses :
    /\ frame[r].op = "config_save" /\ frame[q].op = "config_save" /\ frame[g].op = "config_get"
    /\ frame[r].resp = 200 /\ frame[q].resp = 200 /\ frame[g].resp = 200
    /\ frame[r].config.smtpPassword # frame[q].config.smtpPassword
    /\ frame[r].config.smtpServer = frame[q].config.smtpServer
    /\ frame[g].config = frame[q].config

\* ---------------------------------------------------------------- C14
\* C14: in every reachable state at most one cron task is running, one is running
\* if and only if isRunning is true, and the running one is the task the service
\* references: a replaced or stopped task is not running, so it fires no cycle.
C14_OneTriggerIffRunning ==
  /\ Cardinality(ActiveTasks) <= 1
  /\ (ActiveTasks # {}) <=> isRunning
  /\ ActiveTasks \subseteq {task}

\* ---------------------------------------------------------------- C15
\* C15: once a termination-signal handler has run to completion no browser
\* instance is live and the scheduler is Stopped with no running cron task, also
\* when a cycle was launching the browser and when browser.close() threw.
C15_ShutdownReleasesAll ==
  (\E r \in Reqs : frame[r].op = "shutdown" /\ pc[r] = "done")
  => /\ liveBrowsers = {}
     /\ ~isRunning
     /\ ActiveTasks = {}

\* ---------------------------------------------------------------- C16
\* C16: every settings record in the store, and every copy of it that
\* startMonitoring has read, has checkInterval >= 60, so the tick period
\* floor(checkInterval / 60) is at least one minute.
C16_StoredSettingsInRange ==
  /\ monitoringSettings.checkInterval >= 60
  /\ IntervalMinutes(monitoringSettings) >= 1
  /\ \A r \in Reqs : pc[r] = "start_settings" => IntervalMinutes(frame[r].settings) >= 1

\* ---------------------------------------------------------------- C17
\* the locations a cycle has fetched so far, successfully or not
Fetched(c) == Range(frame[c].failed) \cup {y[1] : y \in Range(frame[c].yields)}

AfterRead(c) == pc[c] \notin {"idle", "launching", "initialized"}

\* C17: the list a cycle iterates over is the enabled locations of the store at
\* the moment the cycle read it; no later step of any route or of the cycle
\* changes that list; and what the cycle has fetched is always exactly the
\* locations before its loop position in that list, each once.
C17_FetchesTheSnapshot ==
  [][\A c \in Cycles :
       /\ (pc[c] = "initialized" /\ pc'[c] = "locations_read")
            => frame'[c].locations = EnabledLocations(dmvLocations)
       /\ AfterRead(c) => frame'[c].locations = frame[c].locations
       /\ (AfterRead(c)' /\ frame'[c].idx > 0)
            => /\ Fetched(c)' = {frame'[c].locations[i] : i \in 1..(frame'[c].idx - 1)}
               /\ Len(frame'[c].failed) + Len(frame'[c].yields) = frame'[c].idx - 1]_vars

\* C17 witness: location 1 was enabled and location 2 disabled when the cycle read
\* them; 1 was disabled and 2 enabled while the cycle was in flight; the cycle has
\* left its loop having fetched location 1 only.
C17_Witness ==
  \E c \in Cycles :
    /\ LeftLoop(c)
    /\ frame[c].locations = <<1>>
    /\ Fetched(c) = {1}
    /\ EnabledLocations(dmvLocations) = <<2>>

\* ---------------------------------------------------------------- C18
EmailAttempts(p) == Occurrences([i \in 1..Len(emailCalls) |-> emailCalls[i][1]], p)

CompletedEntries ==
  SelectSeq(activityLogs, LAMBDA e : e.type = "check_completed")

\* C19: a cycle, alone, that found no slot appended one check_completed entry
\* whose location count is the number of locations its Checker iterated over.
C19_CompletedCountsIterated ==
  \A c \in Cycles :
    (OnlyCycle(c) /\ frame[c].outcome = "check_completed")
    => /\ Len(CompletedEntries) = 1
       /\ CompletedEntries[1].n = Len(frame[c].locations)

\* ---------------------------------------------------------------- C20
\* the cycles inside the try block of checkAppointments, their page open
InTryBlock == {c \in Cycles : pc[c] \in {"loop", "closing_page"}}

CloseFailures == {c \in Cycles : frame[c].closeFailed}

\* a cycle begins with a browser referenced and goes on without launching one;
\* no step closes a browser
BrowserKept ==
  /\ \A c \in Cycles :
       (pc[c] = "idle" /\ pc'[c] # "idle" /\ browser # 0)
       => pc'[c] = "initialized" /\ UNCHANGED <<browser, launched>>
  /\ liveBrowsers \subseteq liveBrowsers'
  /\ browser # 0 => browser' # 0

C21_SingleBrowser ==
  /\ Cardinality(liveBrowsers) <= 1
  /\ liveBrowsers \subseteq {browser}

\* ---------------------------------------------------------------- C22
Extracted == pc[DateCaller] = "extract_done"
MarkedElements ==
  IF frame[DateCaller].textQueryFails THEN <<>> ELSE frame[DateCaller].pageSlots
TextCondition(text, day) ==
  /\ \E v \in Range(dateFormats(day)) : v \in text
  /\ \/ \E s \in TimeStrings : s \in text
     \/ <<"available", 0>> \in text \/ <<"Available", 0>> \in text

\* C22: the text-pattern strategy reports, for every marked element and target
\* date, one slot carrying the location, that target date and the element's text
\* exactly when the text contains one of the date's string variants and either a
\* time or the word "available" in any case; it reports nothing else, and
\* nothing when the query fails or finds no element.
C22_TextStrategyReports ==
  Extracted =>
    LET fr == frame[DateCaller]
        Expected == { [location |-> 1, date |-> <<"date", d>>, time |-> MarkedElements[i]] :
                        <<i, d>> \in { x \in (DOMAIN MarkedElements) \X Range(fr.targetDates) :
                                       TextCondition(MarkedElements[x[1]], x[2]) } }
    IN Range(fr.textFound) = Expected

\* ---------------------------------------------------------------- C23
Eligible ==
  IF frame[DateCaller].calendarQueryFails THEN {}
  ELSE { i \in DOMAIN frame[DateCaller].calendarSlots :
           /\ ~frame[DateCaller].calendarSlots[i].disabled
           /\ frame[DateCaller].calendarSlots[i].text # {} }

\* C23: the structured-attribute strategy reports exactly one slot for every
\* calendar element that is not disabled and has non-empty text, those carrying
\* neither attribute included; its date is the date attribute, else today, and
\* its time is the time attribute, else the text.
C23_EveryEligibleElementYieldsOneSlot ==
  Extracted =>
    LET fr == frame[DateCaller]
        SlotFor(e) == [location |-> 1,
                       date |-> IF e.date # "" THEN e.date ELSE toISODate(fr.today, fr.utcShift),
                       time |-> IF e.time # "" THEN e.time ELSE e.text]
    IN /\ Len(fr.calendarFound) = Cardinality(Eligible)
       /\ \A i \in Eligible : SlotFor(fr.calendarSlots[i]) \in Range(fr.calendarFound)

\* ---------------------------------------------------------------- C24
\* C24: while the scheduler is Stopped the uptime is frozen: no step taken while
\* Stopped, a manual check after a start and a stop included, changes the stored
\* uptime, and the uptime getStatus reports does not grow.
C24_UptimeFrozenWhileStopped ==
  [][(~isRunning /\ ~isRunning') =>
       /\ monitoringStats'.uptime = monitoringStats.uptime
       /\ getStatus'.uptime = getStatus.uptime]_vars

\* ---------------------------------------------------------------- C25
\* C25: every completed sendTestNotifications call has attempted the e-mail test
\* and the SMS test, whatever the other did; it returned normally; each flag of
\* the map it returns is true exactly when that channel's test succeeded; and
\* the activity log and MonitoringStats are as they were.
C25_TestChannelsIndependent ==
  /\ activityLogs = <<>>
  /\ monitoringStats = DefaultStats
  /\ \A n \in Notifiers :
       pc[n] = "done" =>
         /\ frame[n].emailOutcome \in {"sent", "threw"}
         /\ frame[n].smsOutcome \in {"sent", "threw"}
         /\ frame[n].results.email <=> (frame[n].emailOutcome = "sent")
         /\ frame[n].results.sms <=> (frame[n].smsOutcome = "sent")
         /\ ~frame[n].threw

\* C25 witness: a test in which the e-mail failed and the SMS was sent has
\* completed, and one in which the e-mail was sent and the SMS failed.
C25_Witness ==
  /\ \E n \in Notifiers :
       /\ pc[n] = "done"
       /\ frame[n].emailOutcome = "threw" /\ frame[n].smsOutcome = "sent"
       /\ frame[n].results = [email |-> FALSE, sms |-> TRUE]
  /\ \E n \in Notifiers :
       /\ pc[n] = "done"
       /\ frame[n].emailOutcome = "sent" /\ frame[n].smsOutcome = "threw"
       /\ frame[n].results = [email |-> TRUE, sms |-> FALSE]

\* ---------------------------------------------------------------- C26
\* C26: between any two monitoring_started entries of the activity log there is
\* a monitoring_stopped entry, also when start calls overlap: a start that finds
\* the scheduler Running logs nothing.
C26_StartedEntriesSeparatedByStop ==
  \A i, j \in DOMAIN activityLogs :
    (i < j /\ activityLogs[i].type = "monitoring_started"
           /\ activityLogs[j].type = "monitoring_started")
      => \E k \in DOMAIN activityLogs :
           i < k /\ k < j /\ activityLogs[k].type = "monitoring_stopped"

\* ---------------------------------------------------------------- C27
IsCycleOutcome(e) ==
  \/ e.type \in {"appointment_found", "check_completed"}
  \/ e.type = "error" /\ e.title = "Check Failed"
CycleOutcomes(logs) == Cardinality({i \in DOMAIN logs : IsCycleOutcome(logs[i])})
Completing(c) == pc[c] # "done" /\ pc'[c] = "done"
Appended == activityLogs'[Len(activityLogs')]

C28_CountersNeverDecrease ==
  [][/\ monitoringStats'.totalChecks >= monitoringStats.totalChecks
     /\ monitoringStats'.appointmentsFound >= monitoringStats.appointmentsFound
     /\ monitoringStats'.emailsSent >= monitoringStats.emailsSent]_vars

\* ---------------------------------------------------------------- C29
\* C29: whenever no start, stop or save-settings request is in progress, a
\* Running scheduler implies that the stored settings have isEnabled = true.
C29_RunningImpliesEnabled ==
  (\A r \in Reqs : ~InFlight(r)) => (isRunning => monitoringSettings.isEnabled)

\* ---------------------------------------------------------------- C30
\* the Checker or the notification send of cycle c has thrown
CycleFailed(fr) == fr.checker = "threw" \/ fr.emailOutcome = "threw"

\* C30: the step in which a cycle whose Checker or notification send threw
\* completes appends the 'Check Failed' error entry and nothing else, returns
\* normally to its caller (the check-now route answers 200), and leaves the
\* scheduler as it was: isRunning, the task, its cron trigger and startTime.
C30_FailuresAbsorbed ==
  [][\A c \in Cycles :
       (Completing(c) /\ CycleFailed(frame'[c])) =>
         /\ Len(activityLogs') = Len(activityLogs) + 1
         /\ Appended.type = "error" /\ Appended.title = "Check Failed"
         /\ ~frame'[c].threw
         /\ frame'[c].resp = 200
         /\ UNCHANGED schedVars]_vars

\* C30 witness: a tick of the Running scheduler whose Checker threw has
\* completed, the trigger still active; or a check-now whose notification send
\* threw has been answered with success.
C30_Witness ==
  \E c \in Cycles :
    /\ pc[c] = "done" /\ frame[c].outcome = "error" /\ frame[c].resp = 200
    /\ activityLogs[Len(activityLogs)].title = "Check Failed"
    /\ \/ /\ frame[c].trigger = "tick" /\ frame[c].checker = "threw"
          /\ isRunning /\ ActiveTasks # {}
       \/ /\ frame[c].trigger = "manual" /\ frame[c].emailOutcome = "threw"

====
